---- MODULE Spec2Model ----
(***************************************************************************)
(* Model of the export/sync engine of the RadeonProRender Blender add-on:  *)
(*   src/src/rprblender/engine/engine.py         (Engine)                  *)
(*   src/src/rprblender/engine/export_engine.py  (ExportEngineAnimated)    *)
(* Three state machines share the module: the image filter slots, the      *)
(* animated export pass with its frame stepping, and the group export.     *)
(***************************************************************************)
EXTENDS Integers, Sequences, FiniteSets, TLC

(***************************************************************************)
(* Bounds of the model.                                                    *)
(***************************************************************************)
\* resolutions are numbered 1..MaxRes (1 stands for (100,100), 2 for (200,200))
MaxRes == 2
\* values of the numeric filter parameters (sigmas, radius, samples, ...)
MaxParam == 2

(***************************************************************************)
(* Image filter pipeline: Engine.setup_image_filter and friends.           *)
(***************************************************************************)
VARIABLES
    image_filter,       \* Engine.image_filter
    background_filter,  \* Engine.background_filter
    upscale_filter,     \* Engine.upscale_filter
    enabled_aovs,       \* AOVs enabled in rpr_context by enable_aov
    requested,          \* per slot: did the most recent setup call ask enable
    call                \* observation of the most recent setup call

filterVars == <<image_filter, background_filter, upscale_filter,
                enabled_aovs, requested, call>>

\* the filter types _enable_image_filter has a branch for
SupportedTypes == {"BILATERAL", "EAW", "LWR", "ML"}
\* ... and one filter_type string it has no branch for
AllTypes == SupportedTypes \cup {"OTHER"}

\* settings dictionaries handed to setup_image_filter; radius stands for the
\* type-specific numeric parameters (sigmas, radius, samples, half_window,
\* bandwidth, ml_use_fp16_compute_type), which the code only copies and
\* compares
ImageSettings(types) ==
    [enable : BOOLEAN, filter_type : types, resolution : 1..MaxRes,
     radius : 1..MaxParam, ml_color_only : BOOLEAN]

\* settings dictionaries handed to setup_background_filter and
\* setup_upscale_filter: the code reads 'enable' and 'resolution' and compares
\* the whole dictionary; extra stands for any further key, drawn from extras
SlotSettings(extras) == [enable : BOOLEAN, resolution : 1..MaxRes, extra : extras]

\* a slot holding None
NoFilter == [id |-> 0]

Active(f) == f.id # 0

\* identity of a newly constructed filter object: distinct from the instance
\* the slot held when the call started
FreshId(f) == IF f.id = 1 THEN 2 ELSE 1

EnableAov(aov) == <<"enable_aov", aov>>

\* variant of TypeAovs: the ML filter does not enable the albedo AOV
TypeAovs_NoAlbedo(settings) ==
    CASE settings.filter_type = "BILATERAL" ->
            <<"WORLD_COORDINATE", "OBJECT_ID", "SHADING_NORMAL">>
      [] settings.filter_type \in {"EAW", "LWR"} ->
            <<"WORLD_COORDINATE", "OBJECT_ID", "DEPTH", "SHADING_NORMAL">>
      [] settings.filter_type = "ML" ->
            IF ~settings.ml_color_only
            THEN <<"DEPTH", "SHADING_NORMAL">>
            ELSE <<>>
      [] OTHER -> <<>>

\* the enable_aov calls of one filter type, in the order of the code
TypeAovs(settings) ==
    CASE settings.filter_type = "BILATERAL" ->
            <<"WORLD_COORDINATE", "OBJECT_ID", "SHADING_NORMAL">>
      [] settings.filter_type \in {"EAW", "LWR"} ->
            <<"WORLD_COORDINATE", "OBJECT_ID", "DEPTH", "SHADING_NORMAL">>
      [] settings.filter_type = "ML" ->
            IF ~settings.ml_color_only
            THEN <<"DEPTH", "DIFFUSE_ALBEDO", "SHADING_NORMAL">>
            ELSE <<>>
      [] OTHER -> <<>>

\* the inputs set handed to the filter constructor
TypeInputs(settings) ==
    CASE settings.filter_type = "BILATERAL" ->
            {"color", "normal", "world_coordinate", "object_id"}
      [] settings.filter_type \in {"EAW", "LWR"} ->
            {"color", "normal", "depth", "trans", "world_coordinate", "object_id"}
      [] settings.filter_type = "ML" ->
            IF ~settings.ml_color_only
            THEN {"color", "normal", "depth", "albedo"}
            ELSE {"color"}
      [] OTHER -> {}

\* the class constructed for a filter type
TypeClass(settings) ==
    CASE settings.filter_type = "BILATERAL" -> "ImageFilterBilateral"
      [] settings.filter_type = "EAW" -> "ImageFilterEaw"
      [] settings.filter_type = "LWR" -> "ImageFilterLwr"
      [] settings.filter_type = "ML" -> "ImageFilterML"
      [] OTHER -> "None"

\* the sigmas/params handed to the constructor or to update_sigma/update_param
TypeParams(settings) ==
    IF settings.filter_type \in SupportedTypes THEN settings.radius ELSE 0

Range(s) == {s[i] : i \in 1..Len(s)}

\* variant of EnableImageFilter: the AOVs enabled before the call are dropped
EnableImageFilter_ResetsAovs(aovs, id, settings) ==
    LET calls == <<"COLOR">> \o TypeAovs(settings)
        evs   == [i \in 1..Len(calls) |-> EnableAov(calls[i])]
    IN  IF settings.filter_type \in SupportedTypes
        THEN [filter |-> [id |-> id, cls |-> TypeClass(settings),
                          inputs |-> TypeInputs(settings),
                          params |-> TypeParams(settings),
                          settings |-> settings],
              aovs   |-> Range(calls),
              events |-> evs \o <<(<<"construct", TypeClass(settings)>>)>>,
              raised |-> FALSE]
        ELSE [filter |-> NoFilter,
              aovs   |-> Range(calls),
              events |-> evs,
              raised |-> TRUE]

\* _enable_image_filter, entered with self.image_filter = None
EnableImageFilter(aovs, id, settings) ==
    LET calls == <<"COLOR">> \o TypeAovs(settings)
        evs   == [i \in 1..Len(calls) |-> EnableAov(calls[i])]
    IN  IF settings.filter_type \in SupportedTypes
        THEN [filter |-> [id |-> id, cls |-> TypeClass(settings),
                          inputs |-> TypeInputs(settings),
                          params |-> TypeParams(settings),
                          settings |-> settings],
              aovs   |-> aovs \cup Range(calls),
              events |-> evs \o <<(<<"construct", TypeClass(settings)>>)>>,
              raised |-> FALSE]
        \* no branch taken: self.image_filter.settings on None raises
        ELSE [filter |-> NoFilter,
              aovs   |-> aovs \cup Range(calls),
              events |-> evs,
              raised |-> TRUE]

\* variant of DisableFilter: the slot keeps its instance
DisableFilter_KeepsInstance(f) ==
    [filter |-> f, events |-> <<(<<"release", f.cls>>)>>]

\* _disable_image_filter, _disable_background_filter, _disable_upscale_filter
DisableFilter(f) == [filter |-> NoFilter, events |-> <<(<<"release", f.cls>>)>>]

\* _update_image_filter
UpdateImageFilter(f, settings) ==
    [filter |-> [f EXCEPT !.settings = settings, !.params = TypeParams(settings)],
     events |-> IF settings.filter_type \in {"BILATERAL", "EAW", "LWR"}
                THEN <<(<<"update", f.cls>>)>>
                ELSE <<>>]

\* variant of ImageFilterUnchanged: the early return is never taken
ImageFilterUnchanged_Never(f, settings) == FALSE

\* setup_image_filter, line 230: the settings are those of the active filter
ImageFilterUnchanged(f, settings) == Active(f) /\ f.settings = settings

\* variant of CanUpdateInPlace: every change recreates the filter
CanUpdateInPlace_Never(f, settings) == FALSE

\* variant of CanUpdateInPlace: the test for the ML filter is missing
CanUpdateInPlace_AllowsML(f, settings) ==
    /\ f.settings.resolution = settings.resolution
    /\ f.settings.filter_type = settings.filter_type

\* setup_image_filter, lines 237-239: the active filter can take the settings
CanUpdateInPlace(f, settings) ==
    /\ f.settings.resolution = settings.resolution
    /\ f.settings.filter_type = settings.filter_type
    /\ f.settings.filter_type # "ML"

\* setup_image_filter(settings) on slot value f
SetupImageFilter(f, aovs, settings) ==
    IF ImageFilterUnchanged(f, settings)
    THEN [filter |-> f, aovs |-> aovs, ret |-> FALSE, raised |-> FALSE,
          events |-> <<>>]
    ELSE IF settings.enable
    THEN IF ~Active(f)
         THEN LET e == EnableImageFilter(aovs, FreshId(f), settings)
              IN  [filter |-> e.filter, aovs |-> e.aovs, ret |-> ~e.raised,
                   raised |-> e.raised, events |-> e.events]
         ELSE IF CanUpdateInPlace(f, settings)
         THEN LET u == UpdateImageFilter(f, settings)
              IN  [filter |-> u.filter, aovs |-> aovs, ret |-> TRUE,
                   raised |-> FALSE, events |-> u.events]
         ELSE LET d == DisableFilter(f)
                  e == EnableImageFilter(aovs, FreshId(f), settings)
              IN  [filter |-> IF e.raised THEN d.filter ELSE e.filter,
                   aovs |-> e.aovs, ret |-> ~e.raised,
                   raised |-> e.raised, events |-> d.events \o e.events]
    ELSE IF Active(f)
         THEN LET d == DisableFilter(f)
              IN  [filter |-> d.filter, aovs |-> aovs, ret |-> TRUE,
                   raised |-> FALSE, events |-> d.events]
         ELSE [filter |-> f, aovs |-> aovs, ret |-> TRUE, raised |-> FALSE,
               events |-> <<>>]

\* _enable_background_filter
EnableBackgroundFilter(aovs, id, settings) ==
    [filter |-> [id |-> id, cls |-> "ImageFilterTransparentBackground",
                 inputs |-> {"color", "opacity"}, params |-> 0,
                 settings |-> settings],
     aovs   |-> aovs \cup {"COLOR", "OPACITY"},
     events |-> <<EnableAov("COLOR"), EnableAov("OPACITY"),
                  <<"construct", "ImageFilterTransparentBackground">> >>]

\* _enable_upscale_filter
EnableUpscaleFilter(aovs, id, settings) ==
    [filter |-> [id |-> id, cls |-> "ImageFilterUpscale",
                 inputs |-> {"color"}, params |-> 0,
                 settings |-> settings],
     aovs   |-> aovs \cup {"COLOR"},
     events |-> <<EnableAov("COLOR"), <<"construct", "ImageFilterUpscale">> >>]

\* setup_background_filter and setup_upscale_filter share their control flow;
\* e is the outcome of the slot's enable method for these settings
SetupSlotFilter(e, f, aovs, settings) ==
    IF Active(f) /\ f.settings = settings
    THEN [filter |-> f, aovs |-> aovs, ret |-> FALSE, raised |-> FALSE,
          events |-> <<>>]
    ELSE IF settings.enable
    THEN IF ~Active(f)
         THEN [filter |-> e.filter, aovs |-> e.aovs, ret |-> TRUE,
               raised |-> FALSE, events |-> e.events]
         ELSE IF f.settings.resolution = settings.resolution
         THEN [filter |-> f, aovs |-> aovs, ret |-> FALSE, raised |-> FALSE,
               events |-> <<>>]
         ELSE LET d == DisableFilter(f)
              IN  [filter |-> e.filter, aovs |-> e.aovs, ret |-> TRUE,
                   raised |-> FALSE, events |-> d.events \o e.events]
    ELSE IF Active(f)
         THEN LET d == DisableFilter(f)
              IN  [filter |-> d.filter, aovs |-> aovs, ret |-> TRUE,
                   raised |-> FALSE, events |-> d.events]
         ELSE [filter |-> f, aovs |-> aovs, ret |-> TRUE, raised |-> FALSE,
               events |-> <<>>]

\* setup_background_filter
SetupBackgroundFilter(f, aovs, settings) ==
    SetupSlotFilter(EnableBackgroundFilter(aovs, FreshId(f), settings),
                    f, aovs, settings)

\* setup_upscale_filter
SetupUpscaleFilter(f, aovs, settings) ==
    SetupSlotFilter(EnableUpscaleFilter(aovs, FreshId(f), settings),
                    f, aovs, settings)

NoCall == [op |-> "none", ret |-> FALSE, raised |-> FALSE, events |-> <<>>]

\* Engine.__init__
InitFilters ==
    /\ image_filter = NoFilter
    /\ background_filter = NoFilter
    /\ upscale_filter = NoFilter
    /\ enabled_aovs = {}
    /\ requested = [image |-> FALSE, background |-> FALSE, upscale |-> FALSE]
    /\ call = NoCall

(***************************************************************************)
(* Animated export: ExportEngineAnimated.sync and what it calls.           *)
(***************************************************************************)
\* key times of animation curves range over 0..MaxKey
MaxKey == 3
\* scene.frame_start
FrameStart == 1
\* scene.frame_end
FrameEnd == MaxKey - 1

VARIABLES
    scene,           \* the host scene: objects (parent, type), iteration order, camera
    frame_current,   \* scene.frame_current, changed by frame_set
    pc,              \* position inside ExportEngineAnimated.sync
    entry_frame,     \* frame_current observed when sync was entered
    orig_frame,      \* local orig_frame of sync
    keyframes,       \* self.keyframes
    animation_data,  \* self.animation_data
    work,            \* locals of collect_animation_data_by_keyframes
    exc,             \* exception in flight ("" when none)
    todo,            \* objects sync_objects has still to visit
    rpr_objects,     \* rpr_context.objects: key -> kind of renderer object
    log,             \* calls made into the renderer and the load/store library, in order
    mb               \* locals and observed frame_set calls of sync_motion_blur

syncVars == <<scene, frame_current, pc, entry_frame, orig_frame, keyframes,
              animation_data, work, exc, todo, rpr_objects, log, mb>>

ITERATED_OBJECT_TYPES == {"MESH", "LIGHT", "CURVE", "FONT", "SURFACE", "META", "VOLUME"}

NoParent == ""

Min(a, b) == IF a <= b THEN a ELSE b
Max(a, b) == IF a >= b THEN a ELSE b

\* tuple(sorted(S)) for a set of numbers
Sorted(S) == CHOOSE s \in [1..Cardinality(S) -> S] :
                 \A i, j \in 1..Cardinality(S) : i < j => s[i] < s[j]

\* variant of ObjKeyframes: key times after the end frame are not clamped
ObjKeyframes_NoEndClamp(fcurves) ==
    Sorted({Max(FrameStart, k) :
               k \in UNION {fcurves[c] : c \in DOMAIN fcurves}})

\* the key times of one object: every curve's keys clamped to the frame range
ObjKeyframes(fcurves) ==
    Sorted({Min(FrameEnd, Max(FrameStart, k)) :
               k \in UNION {fcurves[c] : c \in DOMAIN fcurves}})

\* variant of CollectKeyframes: every object of the scene gets an entry
CollectKeyframes_AllObjects(anim) ==
    [name \in DOMAIN anim |-> ObjKeyframes(anim[name].fcurves)]

\* collect_keyframes(scene); anim[name] is the object's animation_data
CollectKeyframes(anim) ==
    [name \in {n \in DOMAIN anim : anim[n].action} |->
        ObjKeyframes(anim[name].fcurves)]

\* _set_scene_frame / scene.frame_set: the frame the scene is at afterwards
FrameSet(frame) == frame

\* depsgraph_objects(depsgraph, with_camera)
DepsgraphObjects(sc, with_camera) ==
    LET types == IF with_camera THEN ITERATED_OBJECT_TYPES \cup {"CAMERA"}
                 ELSE ITERATED_OBJECT_TYPES
        Keep(n) == sc.objects[n].type \in types
    IN  SelectSeq(sc.order, Keep)

\* variant of GetGroupNames: the parent group is always looked up under Root
GetGroupNames_ParentUnderRoot(objects, name) ==
    LET parent == objects[name].parent
    IN  IF parent # NoParent
        THEN <<parent \o "." \o name, "Root." \o parent>>
        ELSE <<"Root." \o name, "Root">>

\* variant of GetGroupNames: the parent group of a nested parent is named
\* after the object instead of the parent
GetGroupNames_ParentGroupOfObject(objects, name) ==
    LET parent == objects[name].parent
    IN  IF parent # NoParent
        THEN <<parent \o "." \o name,
               IF objects[parent].parent # NoParent
               THEN objects[parent].parent \o "." \o name
               ELSE "Root." \o parent>>
        ELSE <<"Root." \o name, "Root">>

\* get_group_names(obj): <<group_name, parent_group_name>>
GetGroupNames(objects, name) ==
    LET parent == objects[name].parent
    IN  IF parent # NoParent
        THEN <<parent \o "." \o name,
               IF objects[parent].parent # NoParent
               THEN objects[parent].parent \o "." \o parent
               ELSE "Root." \o parent>>
        ELSE <<"Root." \o name, "Root">>

\* variant of AssingGroupToObject: a camera is assigned as a shape
AssingGroupToObject_CameraAsShape(kind, name, group_name) ==
    CASE kind \in {"Shape", "Camera"} ->
            <<(<<"assign_shape_to_group", name, group_name>>)>>
      [] kind \in {"AreaLight", "PointLight"} ->
            <<(<<"assign_light_to_group", name, group_name>>)>>
      [] OTHER -> <<>>

\* assing_group_to_object(rpr_obj, group_name): the library calls it makes
AssingGroupToObject(kind, name, group_name) ==
    CASE kind = "Shape" -> <<(<<"assign_shape_to_group", name, group_name>>)>>
      [] kind \in {"AreaLight", "PointLight"} ->
            <<(<<"assign_light_to_group", name, group_name>>)>>
      [] kind = "Camera" -> <<(<<"assign_camera_to_group", name, group_name>>)>>
      [] OTHER -> <<>>

Categories == <<"translation", "rotation", "scale">>

\* pyrpr_load_store.MOVEMENT_CONSTANTS: animation track ID
MOVEMENT_CONSTANTS == [translation |-> 1, rotation |-> 2, scale |-> 3]

\* pyrpr_load_store.DATA_SIZE: number of floats used to store a value
DATA_SIZE == [translation |-> 3, rotation |-> 4, scale |-> 3]

\* a constructor call that was left by an exception packed nothing
NoPacked == [structSize |-> 0]

\* the samples taken at the frames of a track, each of size floats
Samples(frames, size) ==
    [i \in DOMAIN frames |-> [frame |-> frames[i], size |-> size]]

\* variant of Animation: the key and value counts are not compared
Animation_NoAssert(group_name, category, keys, data) ==
    IF \E i \in DOMAIN data : data[i].size # DATA_SIZE[category]
    THEN [raised |-> TRUE, error |-> "ValueError",
          events |-> <<(<<"ffi.new", "char[]">>)>>, packed_data |-> NoPacked]
    ELSE [raised |-> FALSE, error |-> "",
          events |-> <<(<<"ffi.new", "char[]">>), (<<"ffi.new", "rprs_animation*">>)>>,
          packed_data |->
             [structSize |-> 1,
              groupName |-> group_name,
              movementType |-> MOVEMENT_CONSTANTS[category],
              interpolationType |-> 0,
              nbTimeKeys |-> Len(keys),
              nbTransformValues |-> Len(keys),
              timeKeys |-> [i \in DOMAIN keys |-> [frame |-> keys[i], per |-> "fps"]],
              transformValues |-> data,
              values_bytes_number |-> Len(data) * DATA_SIZE[category]]]

\* Animation.__init__(group_name, category, keys, data): the assertion on the
\* counts (line 141), the group name buffer (144), the values flattened to
\* len(data) * DATA_SIZE floats, which numpy refuses when a value has another
\* size (157), then the packed rprs_animation structure (160-170)
Animation(group_name, category, keys, data) ==
    IF Len(keys) # Len(data)
    THEN [raised |-> TRUE, error |-> "AssertionError", events |-> <<>>,
          packed_data |-> NoPacked]
    ELSE IF \E i \in DOMAIN data : data[i].size # DATA_SIZE[category]
    THEN [raised |-> TRUE, error |-> "ValueError",
          events |-> <<(<<"ffi.new", "char[]">>)>>, packed_data |-> NoPacked]
    ELSE [raised |-> FALSE, error |-> "",
          events |-> <<(<<"ffi.new", "char[]">>), (<<"ffi.new", "rprs_animation*">>)>>,
          packed_data |->
             [structSize |-> 1,
              groupName |-> group_name,
              movementType |-> MOVEMENT_CONSTANTS[category],
              interpolationType |-> 0,
              nbTimeKeys |-> Len(keys),
              nbTransformValues |-> Len(keys),
              timeKeys |-> [i \in DOMAIN keys |-> [frame |-> keys[i], per |-> "fps"]],
              transformValues |-> data,
              values_bytes_number |-> Len(data) * DATA_SIZE[category]]]

\* variant of ApplyObjectAnimation: an object without collected data is
\* looked up in the keyframes all the same, which fails
ApplyObjectAnimation_MissingRaises(kf, data, object_name, group_name) ==
    IF object_name \notin DOMAIN data
    THEN [events |-> <<>>, raised |-> TRUE]
    ELSE LET keys == kf[object_name]
             Ok(c) == ~Animation(group_name, Categories[c], keys,
                                 data[object_name][Categories[c]]).raised
             good == {c \in 1..3 : \A d \in 1..c : Ok(d)}
         IN  [events |-> [c \in 1..Cardinality(good) |->
                             <<"add_animation", group_name, Categories[c],
                               keys, data[object_name][Categories[c]]>>],
              raised |-> Cardinality(good) < 3]

\* apply_object_animation(object_name, group_name): the add_animation calls,
\* up to the first Animation whose construction raises
ApplyObjectAnimation(kf, data, object_name, group_name) ==
    IF object_name \notin DOMAIN data
    THEN [events |-> <<>>, raised |-> FALSE]
    ELSE LET keys == kf[object_name]
             Ok(c) == ~Animation(group_name, Categories[c], keys,
                                 data[object_name][Categories[c]]).raised
             good == {c \in 1..3 : \A d \in 1..c : Ok(d)}
         IN  [events |-> [c \in 1..Cardinality(good) |->
                             <<"add_animation", group_name, Categories[c],
                               keys, data[object_name][Categories[c]]>>],
              raised |-> Cardinality(good) < 3]

\* variant of GroupCalls: the static transform is set before the parent link
GroupCalls_TransformBeforeLink(sc, kf, data, kind, name) ==
    LET names == GetGroupNames(sc.objects, name)
        anim  == ApplyObjectAnimation(kf, data, name, names[1])
    IN  [events |-> AssingGroupToObject(kind, name, names[1])
                    \o <<(<<"set_transform_to_group", names[1]>>)>>
                    \o (IF sc.objects[name].parent # NoParent
                        THEN <<(<<"assign_parent_group_to_group", names[1], names[2]>>)>>
                        ELSE <<>>)
                    \o anim.events,
         raised |-> anim.raised]

\* the group calls made for one object: assign, link to the parent group,
\* static transform, animation tracks
GroupCalls(sc, kf, data, kind, name) ==
    LET names == GetGroupNames(sc.objects, name)
        anim  == ApplyObjectAnimation(kf, data, name, names[1])
    IN  [events |-> AssingGroupToObject(kind, name, names[1])
                    \o (IF sc.objects[name].parent # NoParent
                        THEN <<(<<"assign_parent_group_to_group", names[1], names[2]>>)>>
                        ELSE <<>>)
                    \o <<(<<"set_transform_to_group", names[1]>>)>>
                    \o anim.events,
         raised |-> anim.raised]

NoWork == [names |-> <<>>, idx |-> 0, current_frame |-> 0,
           combined |-> <<>>]
NoMb == [state |-> "none", entry |-> 0, cur_frame |-> 0, captured |-> 0,
         keys |-> <<>>, sets |-> <<>>]

\* sync(): lines 141-159, up to orig_frame = scene.frame_current
SyncStart ==
    /\ pc = "idle"
    /\ pc' = "collect_keyframes"
    /\ entry_frame' = frame_current
    /\ orig_frame' = frame_current
    /\ UNCHANGED <<scene, frame_current, keyframes, animation_data, work, exc,
                   todo, rpr_objects, log, mb, filterVars>>

\* the animation curves an object of the scene may carry
AnimChoices ==
    {[action |-> FALSE, fcurves |-> <<>>]} \cup
    {[action |-> TRUE, fcurves |-> <<c>>] : c \in SUBSET (0..MaxKey)}

\* self.keyframes = self.collect_keyframes(scene) for a scene whose objects
\* carry the animation anim, then the entry of
\* collect_animation_data_by_keyframes (current_frame = frame_current)
CollectKeyframesOf(anim) ==
    /\ pc = "collect_keyframes"
    /\ LET kf == CollectKeyframes(anim)
           InKf(n) == n \in DOMAIN kf
       IN  /\ keyframes' = kf
           /\ work' = [names |-> SelectSeq(scene.order, InKf), idx |-> 1,
                       current_frame |-> frame_current, combined |-> <<>>]
    /\ pc' = "collect_animation_data"
    /\ UNCHANGED <<scene, frame_current, entry_frame, orig_frame,
                   animation_data, exc, todo, rpr_objects, log, mb, filterVars>>

\* collect_keyframes for the scene of the export, whatever single curve each
\* of its objects carries
CollectKeyframesStep ==
    /\ pc = "collect_keyframes"
    /\ \E anim \in [DOMAIN scene.objects -> AnimChoices] : CollectKeyframesOf(anim)

\* collect_keyframes for a scene that records the animation of its objects
CollectKeyframesScene == CollectKeyframesOf(scene.anim)

\* variant of SampleFrame: no sample is recorded at a frame the scene is
\* already at
SampleFrame_SkipsCurrentFrame ==
    /\ pc = "collect_animation_data"
    /\ work.names # <<>>
    /\ work.idx <= Len(keyframes[Head(work.names)])
    /\ LET frame == keyframes[Head(work.names)][work.idx]
       IN  /\ frame_current' = FrameSet(frame)
           /\ work' = [work EXCEPT !.idx = @ + 1,
                                   !.combined = IF frame = frame_current THEN @
                                                ELSE Append(@, frame)]
    /\ UNCHANGED <<scene, pc, entry_frame, orig_frame, keyframes,
                   animation_data, exc, todo, rpr_objects, log, mb, filterVars>>

\* one pass of the inner loop: frame_set(frame), look the object up, sample
SampleFrame ==
    /\ pc = "collect_animation_data"
    /\ work.names # <<>>
    /\ work.idx <= Len(keyframes[Head(work.names)])
    /\ LET frame == keyframes[Head(work.names)][work.idx]
       IN  /\ frame_current' = FrameSet(frame)
           /\ work' = [work EXCEPT !.idx = @ + 1,
                                   !.combined = Append(@, frame)]
    /\ UNCHANGED <<scene, pc, entry_frame, orig_frame, keyframes,
                   animation_data, exc, todo, rpr_objects, log, mb, filterVars>>

\* one pass of the inner loop in which depsgraph.objects[name] raises KeyError
\* after frame_set(frame): the function is left by the exception
SampleFrameRaises ==
    /\ pc = "collect_animation_data"
    /\ work.names # <<>>
    /\ work.idx <= Len(keyframes[Head(work.names)])
    /\ frame_current' = FrameSet(keyframes[Head(work.names)][work.idx])
    /\ exc' = "KeyError"
    /\ pc' = "finally_frame_set"
    /\ UNCHANGED <<scene, entry_frame, orig_frame, keyframes, animation_data,
                   work, todo, rpr_objects, log, mb, filterVars>>

\* end of the inner loop: animation_data[name] = combined, then
\* context.scene.frame_set(current_frame)
FinishObject ==
    /\ pc = "collect_animation_data"
    /\ work.names # <<>>
    /\ work.idx > Len(keyframes[Head(work.names)])
    /\ animation_data' = (Head(work.names) :>
                            [translation |-> Samples(work.combined, 3),
                             rotation |-> Samples(work.combined, 4),
                             scale |-> Samples(work.combined, 3)]) @@ animation_data
    /\ frame_current' = FrameSet(work.current_frame)
    /\ work' = [work EXCEPT !.names = Tail(@), !.idx = 1, !.combined = <<>>]
    /\ UNCHANGED <<scene, pc, entry_frame, orig_frame, keyframes, exc, todo,
                   rpr_objects, log, mb, filterVars>>

\* return animation_data
AnimationDataDone ==
    /\ pc = "collect_animation_data"
    /\ work.names = <<>>
    /\ pc' = "finally_frame_set"
    /\ UNCHANGED <<scene, frame_current, entry_frame, orig_frame, keyframes,
                   animation_data, work, exc, todo, rpr_objects, log, mb,
                   filterVars>>

\* variant of FinallyFrameSet: sync does not set the frame back
FinallyFrameSet_NoRestore ==
    /\ pc = "finally_frame_set"
    /\ IF exc # ""
       THEN pc' = "raised" /\ todo' = todo
       ELSE pc' = "sync_objects" /\ todo' = DepsgraphObjects(scene, FALSE)
    /\ UNCHANGED <<scene, frame_current, entry_frame, orig_frame, keyframes,
                   animation_data, work, exc, rpr_objects, log, mb, filterVars>>

\* sync(): finally: scene.frame_set(orig_frame); the exception goes on, or
\* sync_objects starts
FinallyFrameSet ==
    /\ pc = "finally_frame_set"
    /\ frame_current' = FrameSet(orig_frame)
    /\ IF exc # ""
       THEN pc' = "raised" /\ todo' = todo
       ELSE pc' = "sync_objects" /\ todo' = DepsgraphObjects(scene, FALSE)
    /\ UNCHANGED <<scene, entry_frame, orig_frame, keyframes, animation_data,
                   work, exc, rpr_objects, log, mb, filterVars>>

\* the renderer object object.sync creates for a host object type
RprKinds(type) ==
    CASE type = "MESH" -> {"Shape"}
      [] type = "LIGHT" -> {"AreaLight", "PointLight"}
      [] type = "CAMERA" -> {"Camera"}
      [] OTHER -> {}

\* one pass of the loop of sync_objects
SyncObject ==
    /\ pc = "sync_objects"
    /\ todo # <<>>
    /\ LET name == Head(todo)
       IN  \/ \* object.sync returned nothing: continue
              /\ UNCHANGED <<rpr_objects, log, pc, exc>>
           \/ \E kind \in RprKinds(scene.objects[name].type) :
                 LET g == GroupCalls(scene, keyframes, animation_data, kind, name)
                 IN  /\ rpr_objects' = (name :> kind) @@ rpr_objects
                     /\ log' = log \o <<(<<"sync", name>>),
                                        (<<"set_transform", name>>)>> \o g.events
                     /\ pc' = IF g.raised THEN "raised" ELSE pc
                     /\ exc' = IF g.raised THEN "AssertionError" ELSE exc
    /\ todo' = Tail(todo)
    /\ UNCHANGED <<scene, frame_current, entry_frame, orig_frame, keyframes,
                   animation_data, work, mb, filterVars>>

\* sync_objects returns
SyncObjectsDone ==
    /\ pc = "sync_objects"
    /\ todo = <<>>
    /\ pc' = "sync_instances"
    /\ UNCHANGED <<scene, frame_current, entry_frame, orig_frame, keyframes,
                   animation_data, work, exc, todo, rpr_objects, log, mb,
                   filterVars>>

\* sync_instances: with no exported instance it returns; for the first
\* exported instance it assigns the group and then reads inst.obj, an
\* attribute the instance does not have (the lines above read inst.object)
SyncInstances ==
    /\ pc = "sync_instances"
    /\ \/ /\ pc' = "export_camera"
          /\ UNCHANGED <<log, exc>>
       \/ \E name \in DOMAIN rpr_objects :
             /\ rpr_objects[name] = "Shape"
             /\ log' = log \o <<(<<"sync_instance", name \o ":0">>),
                                (<<"set_transform", name \o ":0">>)>>
                           \o AssingGroupToObject("Shape", name \o ":0", name \o ":0")
             /\ exc' = "AttributeError"
             /\ pc' = "raised"
    /\ UNCHANGED <<scene, frame_current, entry_frame, orig_frame, keyframes,
                   animation_data, work, todo, rpr_objects, mb, filterVars>>

\* sync(): EXPORT CAMERA, lines 171-190
ExportCamera ==
    /\ pc = "export_camera"
    /\ LET g == GroupCalls(scene, keyframes, animation_data, "Camera", scene.camera)
       IN  /\ rpr_objects' = (scene.camera :> "Camera") @@ rpr_objects
           /\ log' = log \o <<(<<"create_camera", scene.camera>>)>> \o g.events
           /\ pc' = IF g.raised THEN "raised" ELSE "motion_blur"
           /\ exc' = IF g.raised THEN "AssertionError" ELSE exc
    /\ UNCHANGED <<scene, frame_current, entry_frame, orig_frame, keyframes,
                   animation_data, work, todo, mb, filterVars>>

NextExport == SyncObject \/ SyncObjectsDone \/ SyncInstances \/ ExportCamera

\* renderer objects sync_motion_blur computes motion for
MotionBlurKinds == {"Shape", "AreaLight", "Camera"}

\* sync(): do_motion_blur is false, sync_motion_blur is not called
MotionBlurSkip ==
    /\ pc = "motion_blur"
    /\ pc' = "finish"
    /\ UNCHANGED <<scene, frame_current, entry_frame, orig_frame, keyframes,
                   animation_data, work, exc, todo, rpr_objects, log, mb,
                   filterVars>>

\* variant of MotionBlurCapture: the scene is rewound before the captured
\* matrices are looked at
MotionBlurCapture_RewindsFirst ==
    /\ pc = "motion_blur"
    /\ \E flagged \in SUBSET DOMAIN scene.objects :
          LET Captured(n) == /\ n \in flagged
                             /\ n \in DOMAIN rpr_objects
                             /\ rpr_objects[n] \in MotionBlurKinds
              cur_matrices == SelectSeq(DepsgraphObjects(scene, TRUE), Captured)
          IN  /\ mb' = [state |-> "computing", entry |-> frame_current,
                        cur_frame |-> frame_current,
                        captured |-> Len(cur_matrices),
                        keys |-> cur_matrices,
                        sets |-> <<frame_current - 1>>]
              /\ frame_current' = FrameSet(frame_current - 1)
              /\ pc' = "mb_compute"
    /\ UNCHANGED <<scene, entry_frame, orig_frame, keyframes, animation_data,
                   work, exc, todo, rpr_objects, log, filterVars>>

\* sync_motion_blur, lines 168-200: capture the matrices of the entities that
\* have motion blur set (flagged) and a supported renderer object; return when
\* there are none, else rewind the scene to cur_frame - 1
MotionBlurCapture ==
    /\ pc = "motion_blur"
    /\ \E flagged \in SUBSET DOMAIN scene.objects :
          LET Captured(n) == /\ n \in flagged
                             /\ n \in DOMAIN rpr_objects
                             /\ rpr_objects[n] \in MotionBlurKinds
              cur_matrices == SelectSeq(DepsgraphObjects(scene, TRUE), Captured)
          IN  IF cur_matrices = <<>>
              THEN /\ mb' = [state |-> "returned", entry |-> frame_current,
                             cur_frame |-> frame_current, captured |-> 0,
                             keys |-> <<>>, sets |-> <<>>]
                   /\ pc' = "finish"
                   /\ UNCHANGED frame_current
              ELSE /\ mb' = [state |-> "computing", entry |-> frame_current,
                             cur_frame |-> frame_current,
                             captured |-> Len(cur_matrices),
                             keys |-> cur_matrices,
                             sets |-> <<frame_current - 1>>]
                   /\ frame_current' = FrameSet(frame_current - 1)
                   /\ pc' = "mb_compute"
    /\ UNCHANGED <<scene, entry_frame, orig_frame, keyframes, animation_data,
                   work, exc, todo, rpr_objects, log, filterVars>>

\* lengths of the axis of the rotation between two frames, in tenths
AxisLengths == {0, 5, 6}

\* variant of SetMotionBlur: the degenerate rotation guard compares with >=
SetMotionBlur_GuardIncludesHalf(kind, key, has_motion_transform, axis_length) ==
    IF has_motion_transform
    THEN <<(<<"set_motion_transform", key, "prev_matrix">>)>>
    ELSE <<(<<"set_linear_motion", key>>),
           (<<"set_angular_motion", key,
              IF axis_length >= 5 THEN "axis_angle" ELSE "fixed">>)>>
         \o (IF kind # "Camera"
             THEN <<(<<"set_scale_motion", key>>)>>
             ELSE <<>>)

\* variant of SetMotionBlur: the scale motion is set on cameras too
SetMotionBlur_ScaleOnCamera(kind, key, has_motion_transform, axis_length) ==
    IF has_motion_transform
    THEN <<(<<"set_motion_transform", key, "prev_matrix">>)>>
    ELSE <<(<<"set_linear_motion", key>>),
           (<<"set_angular_motion", key,
              IF axis_length > 5 THEN "axis_angle" ELSE "fixed">>),
           (<<"set_scale_motion", key>>)>>

\* set_motion_blur(rpr_object, prev_matrix, cur_matrix), lines 148-166: the
\* calls made on the renderer object of the given kind; "fixed" stands for
\* the angular motion (1.0, 0.0, 0.0, 0.0)
SetMotionBlur(kind, key, has_motion_transform, axis_length) ==
    IF has_motion_transform
    THEN <<(<<"set_motion_transform", key, "prev_matrix">>)>>
    ELSE <<(<<"set_linear_motion", key>>),
           (<<"set_angular_motion", key,
              IF axis_length > 5 THEN "axis_angle" ELSE "fixed">>)>>
         \o (IF kind # "Camera"
             THEN <<(<<"set_scale_motion", key>>)>>
             ELSE <<>>)

\* set_motion_blur for the next captured entity, whether or not its renderer
\* object has set_motion_transform and whatever the rotation between the
\* two frames is
MotionBlurEntity ==
    /\ pc = "mb_compute"
    /\ mb.keys # <<>>
    /\ \E has_motion_transform \in BOOLEAN, axis_length \in AxisLengths :
          /\ has_motion_transform => axis_length = 0
          /\ log' = Append(log, <<"set_motion_blur", Head(mb.keys),
                                  has_motion_transform, axis_length>>)
                     \o SetMotionBlur(rpr_objects[Head(mb.keys)], Head(mb.keys),
                                      has_motion_transform, axis_length)
    /\ mb' = [mb EXCEPT !.keys = Tail(@)]
    /\ UNCHANGED <<scene, frame_current, pc, entry_frame, orig_frame,
                   keyframes, animation_data, work, exc, todo, rpr_objects,
                   filterVars>>

\* variant of MotionBlurEntityRaises: no finally block, the exception leaves
\* sync_motion_blur at once
MotionBlurEntityRaises_NoFinally ==
    /\ pc = "mb_compute"
    /\ mb.keys # <<>>
    /\ log' = log \o <<(<<"set_motion_blur_raised", Head(mb.keys)>>),
                        (<<"set_linear_motion", Head(mb.keys)>>)>>
    /\ exc' = "ValueError"
    /\ pc' = "raised"
    /\ mb' = [mb EXCEPT !.state = "raised"]
    /\ UNCHANGED <<scene, frame_current, entry_frame, orig_frame, keyframes,
                   animation_data, work, todo, rpr_objects, filterVars>>

\* set_motion_blur raises for the next captured entity: after the linear
\* motion was set, cur_matrix.inverted() of a singular matrix raises
\* ValueError (line 156); control goes to the finally block
MotionBlurEntityRaises ==
    /\ pc = "mb_compute"
    /\ mb.keys # <<>>
    /\ log' = log \o <<(<<"set_motion_blur_raised", Head(mb.keys)>>),
                        (<<"set_linear_motion", Head(mb.keys)>>)>>
    /\ exc' = "ValueError"
    /\ pc' = "mb_finally"
    /\ UNCHANGED <<scene, frame_current, entry_frame, orig_frame, keyframes,
                   animation_data, work, todo, rpr_objects, mb, filterVars>>

\* sync_motion_blur: finally: _set_scene_frame(scene, cur_frame, 0.0), then
\* the function returns or the exception leaves sync
MotionBlurFinally ==
    /\ \/ pc = "mb_compute" /\ mb.keys = <<>>
       \/ pc = "mb_finally"
    /\ frame_current' = FrameSet(mb.cur_frame)
    /\ mb' = [mb EXCEPT !.sets = Append(@, mb.cur_frame),
                        !.state = IF exc # "" THEN "raised" ELSE "returned"]
    /\ pc' = IF exc # "" THEN "raised" ELSE "finish"
    /\ UNCHANGED <<scene, entry_frame, orig_frame, keyframes, animation_data,
                   work, exc, todo, rpr_objects, log, filterVars>>

\* sync(): lines 198-210, sync returns
SyncFinish ==
    /\ pc = "finish"
    /\ pc' = "done"
    /\ UNCHANGED <<scene, frame_current, entry_frame, orig_frame, keyframes,
                   animation_data, work, exc, todo, rpr_objects, log, mb,
                   filterVars>>

NextMotionBlur ==
    \/ MotionBlurSkip \/ MotionBlurCapture \/ MotionBlurEntity
    \/ MotionBlurEntityRaises \/ MotionBlurFinally

\* one call engine.setup_image_filter(s)
CallSetupImageFilter(s) ==
    LET r == SetupImageFilter(image_filter, enabled_aovs, s)
    IN  /\ image_filter' = r.filter
        /\ enabled_aovs' = r.aovs
        /\ requested' = [requested EXCEPT !.image = s.enable]
        /\ call' = [op |-> "setup_image_filter", ret |-> r.ret, raised |-> r.raised, events |-> r.events]
        /\ UNCHANGED <<background_filter, upscale_filter, syncVars>>

\* one call engine.setup_background_filter(s)
CallSetupBackgroundFilter(s) ==
    LET r == SetupBackgroundFilter(background_filter, enabled_aovs, s)
    IN  /\ background_filter' = r.filter
        /\ enabled_aovs' = r.aovs
        /\ requested' = [requested EXCEPT !.background = s.enable]
        /\ call' = [op |-> "setup_background_filter", ret |-> r.ret, raised |-> r.raised, events |-> r.events]
        /\ UNCHANGED <<image_filter, upscale_filter, syncVars>>

\* one call engine.setup_upscale_filter(s)
CallSetupUpscaleFilter(s) ==
    LET r == SetupUpscaleFilter(upscale_filter, enabled_aovs, s)
    IN  /\ upscale_filter' = r.filter
        /\ enabled_aovs' = r.aovs
        /\ requested' = [requested EXCEPT !.upscale = s.enable]
        /\ call' = [op |-> "setup_upscale_filter", ret |-> r.ret, raised |-> r.raised, events |-> r.events]
        /\ UNCHANGED <<image_filter, background_filter, syncVars>>

(***************************************************************************)
(* Render result: Engine._set_render_result and update_render_result.      *)
(***************************************************************************)
\* an image is the sequence of its channels; a channel is named by the
\* buffer it was read from
\* rpr_context.get_image(aov): the raw buffer of an AOV;
\* rpr_context.get_image() is RawImage("DEFAULT")
RawImage(aov) == [c \in 1..4 |-> <<"raw", aov, c>>]

\* self.image_filter.get_data(): the output of the denoise filter
FilterData(f) == [c \in 1..4 |-> <<"filtered", f.cls, c>>]

\* self.background_filter.get_data() after update_input('color', color),
\* update_input('opacity', opacity) and run()
Composite(color, opacity) == [c \in 1..4 |-> <<"composite", color, opacity, c>>]

\* zeros_image(channels)
ZerosImage(channels) == [c \in 1..channels |-> <<"zero">>]

\* update_background_filter_inputs(color_image, opacity_image), then
\* background_filter.run() and background_filter.get_data()
RunBackgroundFilter(bgf, color_image, opacity_image) ==
    [image  |-> Composite(color_image, opacity_image),
     events |-> <<(<<"update_input", "color", color_image>>),
                  (<<"update_input", "opacity", opacity_image>>),
                  (<<"run", bgf.cls>>)>>]

\* variant of CombinedImage: the alpha channel of the filter output is kept
CombinedImage_KeepsFilterAlpha(apply_image_filter, imf, bgf) ==
    IF apply_image_filter /\ Active(imf)
    THEN IF Active(bgf)
         THEN RunBackgroundFilter(bgf, FilterData(imf), RawImage("OPACITY"))
         ELSE [image |-> FilterData(imf), events |-> <<>>]
    ELSE IF Active(bgf)
         THEN RunBackgroundFilter(bgf, RawImage("COLOR"), RawImage("OPACITY"))
         ELSE [image |-> RawImage("DEFAULT"), events |-> <<>>]

\* variant of CombinedImage: the denoise filter output is never used
CombinedImage_IgnoresFilter(apply_image_filter, imf, bgf) ==
    IF Active(bgf)
    THEN RunBackgroundFilter(bgf, RawImage("COLOR"), RawImage("OPACITY"))
    ELSE [image |-> RawImage("DEFAULT"), events |-> <<>>]

\* variant of CombinedImage: the background composite always reads the raw
\* color buffer
CombinedImage_CompositeOnRaw(apply_image_filter, imf, bgf) ==
    IF Active(bgf)
    THEN RunBackgroundFilter(bgf, RawImage("COLOR"), RawImage("OPACITY"))
    ELSE IF apply_image_filter /\ Active(imf)
         THEN [image  |-> [FilterData(imf) EXCEPT ![4] = RawImage("DEFAULT")[4]],
               events |-> <<>>]
         ELSE [image |-> RawImage("DEFAULT"), events |-> <<>>]

\* the image of the pass named "Combined", lines 79-97
CombinedImage(apply_image_filter, imf, bgf) ==
    IF apply_image_filter /\ Active(imf)
    THEN IF Active(bgf)
         THEN RunBackgroundFilter(bgf, FilterData(imf), RawImage("OPACITY"))
         ELSE [image  |-> [FilterData(imf) EXCEPT ![4] = RawImage("DEFAULT")[4]],
               events |-> <<>>]
    ELSE IF Active(bgf)
         THEN RunBackgroundFilter(bgf, RawImage("COLOR"), RawImage("OPACITY"))
         ELSE [image |-> RawImage("DEFAULT"), events |-> <<>>]

\* RPR_ViewLayerProperites.aovs_info: render pass name -> AOV
AovsInfo == [Depth |-> "DEPTH"]

\* variant of PassImage: the buffer of a known AOV is read without asking
\* whether the AOV is enabled
PassImage_ReadsDisabledAov(p, apply_image_filter, imf, bgf, aovs) ==
    LET r == CASE p.name = "Combined" -> CombinedImage(apply_image_filter, imf, bgf)
               [] p.name = "Color" -> [image |-> RawImage("COLOR"), events |-> <<>>]
               [] OTHER ->
                    IF p.name \in DOMAIN AovsInfo
                    THEN [image |-> RawImage(AovsInfo[p.name]), events |-> <<>>]
                    ELSE [image  |-> ZerosImage(p.channels),
                          events |-> <<(<<"warn", p.name>>)>>]
    IN  [image  |-> IF p.channels # Len(r.image)
                    THEN SubSeq(r.image, 1, p.channels) ELSE r.image,
         events |-> r.events]

\* the image of one render pass p, lines 79-115
PassImage(p, apply_image_filter, imf, bgf, aovs) ==
    LET r == CASE p.name = "Combined" -> CombinedImage(apply_image_filter, imf, bgf)
               [] p.name = "Color" -> [image |-> RawImage("COLOR"), events |-> <<>>]
               [] OTHER ->
                    IF p.name \in DOMAIN AovsInfo /\ AovsInfo[p.name] \in aovs
                    THEN [image |-> RawImage(AovsInfo[p.name]), events |-> <<>>]
                    ELSE [image  |-> ZerosImage(p.channels),
                          events |-> <<(<<"warn", p.name>>)>>]
    IN  [image  |-> IF p.channels # Len(r.image)
                    THEN SubSeq(r.image, 1, p.channels) ELSE r.image,
         events |-> r.events]

\* _set_render_result(render_passes, apply_image_filter): the images set to
\* the passes, in order, and the calls made
RECURSIVE SetRenderResult(_, _, _, _, _)
SetRenderResult(render_passes, apply_image_filter, imf, bgf, aovs) ==
    IF render_passes = <<>>
    THEN [images |-> <<>>, events |-> <<>>]
    ELSE LET r    == PassImage(Head(render_passes), apply_image_filter, imf, bgf, aovs)
             rest == SetRenderResult(Tail(render_passes), apply_image_filter,
                                     imf, bgf, aovs)
         IN  [images |-> <<r.image>> \o rest.images,
              events |-> r.events \o rest.events]

\* the render passes of a result layer
Passes == {[name |-> "Combined", channels |-> 4],
           [name |-> "Color", channels |-> 4],
           [name |-> "Depth", channels |-> 1],
           [name |-> "Custom", channels |-> 3]}

\* one or two distinct passes, in any order
PassLists == {<<p>> : p \in Passes} \cup
             {s \in Passes \X Passes : s[1] # s[2]}

\* one call engine.update_render_result(tile_pos, tile_size, layer_name,
\* apply_image_filter)
UpdateRenderResult ==
    \E apply_image_filter \in BOOLEAN, render_passes \in PassLists :
        LET r == SetRenderResult(render_passes, apply_image_filter,
                                 image_filter, background_filter, enabled_aovs)
        IN  /\ call' = [op |-> "update_render_result",
                        apply_image_filter |-> apply_image_filter,
                        passes |-> render_passes,
                        ret |-> r.images, raised |-> FALSE,
                        events |-> r.events]
            /\ UNCHANGED <<image_filter, background_filter, upscale_filter,
                           enabled_aovs, requested, syncVars>>

vars == <<filterVars, syncVars>>

\* a scene with a parented light, an unparented mesh and the camera
AnimatedScene ==
    [objects |-> ("Cube"   :> [parent |-> NoParent, type |-> "MESH"]) @@
                 ("Lamp"   :> [parent |-> "Cube", type |-> "LIGHT"]) @@
                 ("Camera" :> [parent |-> NoParent, type |-> "CAMERA"]),
     order   |-> <<"Cube", "Lamp", "Camera">>,
     camera  |-> "Camera"]

\* ExportEngineAnimated.__init__, before sync is called
InitEngine ==
    /\ pc = "idle"
    /\ entry_frame = 0
    /\ orig_frame = 0
    /\ keyframes = <<>>
    /\ animation_data = <<>>
    /\ work = NoWork
    /\ exc = ""
    /\ todo = <<>>
    /\ rpr_objects = <<>>
    /\ log = <<>>
    /\ mb = NoMb

Init ==
    /\ InitFilters
    /\ InitEngine
    /\ scene = AnimatedScene
    /\ frame_current \in 0..MaxKey

\* ExportEngineAnimated.sync, step by step
Next ==
    \/ SyncStart \/ CollectKeyframesStep \/ SampleFrame \/ SampleFrameRaises
    \/ FinishObject \/ AnimationDataDone \/ FinallyFrameSet
    \/ NextExport \/ NextMotionBlur \/ SyncFinish

Spec == Init /\ [][Next]_vars

\* a call of setup_image_filter with one of the supported filter types
SetupImage == \E s \in ImageSettings(SupportedTypes) : CallSetupImageFilter(s)

\* a call of setup_background_filter
SetupBackground == \E s \in SlotSettings({1}) : CallSetupBackgroundFilter(s)

\* a call of setup_upscale_filter
SetupUpscale == \E s \in SlotSettings({1}) : CallSetupUpscaleFilter(s)

\* the engine before any setup call; the scene stays at its start frame
InitEngineFilters == Init /\ frame_current = FrameStart

\* filter setup calls with the filter types the engine supports
NextFilter == SetupImage \/ SetupBackground \/ SetupUpscale

SpecFilter == InitEngineFilters /\ [][NextFilter]_vars

\* setup_image_filter calls alone, with the supported filter types
NextImage == SetupImage

SpecImage == InitEngineFilters /\ [][NextImage]_vars

\* object names of the scenes whose hierarchy is explored
Names == {"a", "b", "a.b", "Root", "Root.a"}

\* object types of those scenes; EMPTY is a type depsgraph_objects skips
SceneTypes == {"MESH", "LIGHT", "EMPTY", "CAMERA"}

\* no object is its own ancestor (three objects: chains of at most three links)
Acyclic(o) ==
    \A n \in DOMAIN o :
        LET Up(x) == IF x = NoParent THEN NoParent ELSE o[x].parent
        IN  n \notin {Up(n), Up(Up(n)), Up(Up(Up(n)))}

\* scenes of three objects with distinct names out of names, any parent
\* links, any iteration order, and exactly one camera, which is scene.camera
HierScenes(names) ==
    UNION {
      { [objects |-> o, order |-> <<x, y, z>>,
         camera |-> CHOOSE n \in {x, y, z} : o[n].type = "CAMERA"] :
          o \in { f \in [{x, y, z} -> [parent : {x, y, z, NoParent},
                                    type : SceneTypes]] :
                    /\ Acyclic(f)
                    /\ Cardinality({n \in {x, y, z} : f[n].type = "CAMERA"}) = 1 } }
      : <<x, y, z>> \in { s \in names \X names \X names :
                            s[1] # s[2] /\ s[1] # s[3] /\ s[2] # s[3] } }

\* the state in which sync reaches sync_objects (line 168) for a scene
\* without animation: nothing collected, the frame unchanged
InitGroups ==
    /\ InitFilters
    /\ scene \in HierScenes(Names)
    /\ frame_current = FrameStart
    /\ pc = "sync_objects"
    /\ entry_frame = FrameStart
    /\ orig_frame = FrameStart
    /\ keyframes = <<>>
    /\ animation_data = <<>>
    /\ work = [NoWork EXCEPT !.idx = 1, !.current_frame = FrameStart]
    /\ exc = ""
    /\ todo = DepsgraphObjects(scene, FALSE)
    /\ rpr_objects = <<>>
    /\ log = <<>>
    /\ mb = NoMb

SpecGroups == InitGroups /\ [][NextExport]_vars

\* the key times one curve may hold: at most two, anywhere in 0..MaxKey
KeySets == {S \in SUBSET (0..MaxKey) : Cardinality(S) <= 2}

\* the animation one object may carry: none, an action without curves, or an
\* action with one or two curves
CurveChoices ==
    {[action |-> FALSE, fcurves |-> <<>>], [action |-> TRUE, fcurves |-> <<>>]}
    \cup {[action |-> TRUE, fcurves |-> <<a>>] : a \in KeySets}
    \cup {[action |-> TRUE, fcurves |-> <<a, b>>] : a \in KeySets, b \in KeySets}

\* a mesh and the camera, each with any of these animations
KeyframeScenes ==
    {[objects |-> ("Cube"   :> [parent |-> NoParent, type |-> "MESH"]) @@
                  ("Camera" :> [parent |-> NoParent, type |-> "CAMERA"]),
      order   |-> <<"Cube", "Camera">>,
      camera  |-> "Camera",
      anim    |-> a] : a \in [{"Cube", "Camera"} -> CurveChoices]}

\* sync at the point where it calls collect_keyframes (line 161)
InitKeyframes ==
    /\ InitFilters
    /\ scene \in KeyframeScenes
    /\ frame_current = FrameStart
    /\ pc = "collect_keyframes"
    /\ entry_frame = FrameStart
    /\ orig_frame = FrameStart
    /\ keyframes = <<>>
    /\ animation_data = <<>>
    /\ work = NoWork
    /\ exc = ""
    /\ todo = <<>>
    /\ rpr_objects = <<>>
    /\ log = <<>>
    /\ mb = NoMb

NextKeyframes == CollectKeyframesScene

SpecKeyframes == InitKeyframes /\ [][NextKeyframes]_vars

\* a call of setup_image_filter at the render resolution
SetupImageAtRender ==
    \E s \in {t \in ImageSettings(SupportedTypes) : t.resolution = 1 /\ t.radius = 1} :
        CallSetupImageFilter(s)

\* a call of setup_background_filter at the render resolution
SetupBackgroundAtRender ==
    \E s \in {t \in SlotSettings({1}) : t.resolution = 1} :
        CallSetupBackgroundFilter(s)

\* filter setup calls and render result updates
NextRender == SetupImageAtRender \/ SetupBackgroundAtRender \/ UpdateRenderResult

SpecRender == InitEngineFilters /\ [][NextRender]_vars

\* kinds of renderer objects: shapes, two kinds of lights, cameras, and two
\* kinds that are none of these
RprVariants == {"Shape", "AreaLight", "PointLight", "Camera", "HeteroVolume", "Curve"}

\* one call assing_group_to_object(rpr_obj, group_name) for a renderer object
\* of any kind and any group name
CallAssingGroupToObject ==
    \E kind \in RprVariants, name \in Names, parent \in Names \cup {"Root"} :
        /\ call' = [op |-> "assing_group_to_object", kind |-> kind,
                    name |-> name, group_name |-> parent \o "." \o name,
                    ret |-> FALSE, raised |-> FALSE,
                    events |-> AssingGroupToObject(kind, name, parent \o "." \o name)]
        /\ UNCHANGED <<image_filter, background_filter, upscale_filter,
                       enabled_aovs, requested, syncVars>>

NextAssign == CallAssingGroupToObject

SpecAssign == InitEngineFilters /\ [][NextAssign]_vars

\* variant of UpdateImageFilterInputs: the ML filter is always handed the
\* auxiliary images
UpdateImageFilterInputs_MLAlwaysAux(f) ==
    LET filter_type == f.settings.filter_type
    IN  CASE filter_type = "BILATERAL" ->
                [inputs |-> <<"color", "normal", "world_coordinate", "object_id">>,
                 raised |-> FALSE]
          [] filter_type \in {"EAW", "LWR"} ->
                [inputs |-> <<"color", "normal", "depth", "trans",
                              "world_coordinate", "object_id">>,
                 raised |-> FALSE]
          [] filter_type = "ML" ->
                [inputs |-> <<"color", "depth", "albedo", "normal">>,
                 raised |-> FALSE]
          [] OTHER -> [inputs |-> <<>>, raised |-> TRUE]

\* update_image_filter_inputs on the active filter f: the input ids of the
\* dictionary it builds from f.settings, in insertion order
UpdateImageFilterInputs(f) ==
    LET filter_type == f.settings.filter_type
    IN  CASE filter_type = "BILATERAL" ->
                [inputs |-> <<"color", "normal", "world_coordinate", "object_id">>,
                 raised |-> FALSE]
          [] filter_type \in {"EAW", "LWR"} ->
                [inputs |-> <<"color", "normal", "depth", "trans",
                              "world_coordinate", "object_id">>,
                 raised |-> FALSE]
          [] filter_type = "ML" ->
                [inputs |-> <<"color">>
                            \o (IF ~f.settings.ml_color_only
                                THEN <<"depth", "albedo", "normal">>
                                ELSE <<>>),
                 raised |-> FALSE]
          \* ValueError("Incorrect filter type")
          [] OTHER -> [inputs |-> <<>>, raised |-> TRUE]

\* one call engine.update_image_filter_inputs(); without a filter the read
\* of self.image_filter.settings raises
CallUpdateImageFilterInputs ==
    LET r == IF Active(image_filter)
             THEN UpdateImageFilterInputs(image_filter)
             ELSE [inputs |-> <<>>, raised |-> TRUE]
    IN  /\ call' = [op |-> "update_image_filter_inputs", ret |-> FALSE,
                    raised |-> r.raised,
                    events |-> [i \in 1..Len(r.inputs) |->
                                  <<"update_input", r.inputs[i]>>]]
        /\ UNCHANGED <<image_filter, background_filter, upscale_filter,
                       enabled_aovs, requested, syncVars>>

\* setup calls on the denoise slot and input updates
NextInputs == SetupImage \/ CallUpdateImageFilterInputs

SpecInputs == InitEngineFilters /\ [][NextInputs]_vars

\* stop_render: the renderer context and with it the enabled AOVs are
\* dropped, the denoise and the background slot are cleared
StopRender ==
    /\ image_filter' = NoFilter
    /\ background_filter' = NoFilter
    /\ enabled_aovs' = {}
    /\ call' = [op |-> "stop_render", ret |-> FALSE, raised |-> FALSE,
                events |-> <<>>]
    /\ UNCHANGED <<upscale_filter, requested, syncVars>>

\* a setup call on one of the three slots of an engine that still has its
\* renderer context
SetupBeforeStop ==
    /\ call.op # "stop_render"
    /\ (SetupImageAtRender \/ SetupBackgroundAtRender \/ SetupUpscale)

\* setup calls followed by stop_render
NextStop == SetupBeforeStop \/ StopRender

SpecStop == InitEngineFilters /\ [][NextStop]_vars

\* the settings of a setup_image_filter call at the render resolution, with
\* a filter type _enable_image_filter has no branch for among them
AnyTypeSettings ==
    {t \in ImageSettings(AllTypes) : t.resolution = 1 /\ t.radius = 1}

\* a call of setup_image_filter with any filter type
SetupImageAnyType == \E s \in AnyTypeSettings : CallSetupImageFilter(s)

NextTypes == SetupImageAnyType

SpecTypes == InitEngineFilters /\ [][NextTypes]_vars

\* a call of setup_background_filter whose settings may differ in a key the
\* code does not read
SetupBackgroundAny == \E s \in SlotSettings({1, 2}) : CallSetupBackgroundFilter(s)

\* a call of setup_upscale_filter whose settings may differ in a key the
\* code does not read
SetupUpscaleAny == \E s \in SlotSettings({1, 2}) : CallSetupUpscaleFilter(s)

\* setup calls on the three slots
NextSlots == SetupImageAtRender \/ SetupBackgroundAny \/ SetupUpscaleAny

SpecSlots == InitEngineFilters /\ [][NextSlots]_vars

\* longest key and value sequences handed to the Animation constructor
MaxLen == 2

\* sequences over S of at most MaxLen elements
SeqsUpTo(S) == UNION {[1..n -> S] : n \in 0..MaxLen}

\* one construction pyrpr_load_store.Animation(group_name, category, keys,
\* data) with any key times and any values of 3 or 4 floats
NewAnimation ==
    \E category \in {"translation", "rotation", "scale"},
       keys \in SeqsUpTo(FrameStart..FrameEnd),
       data \in SeqsUpTo([frame : {FrameStart}, size : {3, 4}]) :
        LET a == Animation("Root.Cube", category, keys, data)
        IN  /\ call' = [op |-> "Animation", category |-> category,
                        keys |-> keys, data |-> data, ret |-> a.packed_data,
                        raised |-> a.raised, error |-> a.error,
                        events |-> a.events]
            /\ UNCHANGED <<image_filter, background_filter, upscale_filter,
                           enabled_aovs, requested, syncVars>>

NextAnimation == NewAnimation

SpecAnimation == InitEngineFilters /\ [][NextAnimation]_vars

(***************************************************************************)
(* Properties of the frame stepping of the animated export.                *)
(***************************************************************************)
\* C1: when sync_motion_blur captured at least one entity and has returned
\* or has raised from the per-entity motion computation, the current frame
\* is the frame observed before the call, and the scene was set to exactly
\* two frames: entry - 1, then entry.
C1_MotionBlurRestoresFrame ==
    (mb.state \in {"returned", "raised"} /\ mb.captured > 0) =>
        /\ frame_current = mb.entry
        /\ mb.sets = <<mb.entry - 1, mb.entry>>

\* sync_motion_blur captured an entity and left by an exception of
\* set_motion_blur
C1_Witness ==
    /\ mb.state = "raised"
    /\ mb.captured > 0
    /\ exc = "ValueError"
    /\ Len(mb.sets) = 2

\* C2: in ExportEngineAnimated.sync the current frame equals the frame at
\* sync entry when sync_objects starts and when sync has returned or raised,
\* whatever keyframe sampling and motion blur evaluation did.
C2_SyncRestoresFrame ==
    (pc \in {"sync_objects", "done", "raised"}) => frame_current = entry_frame

\* sync was left by a sampling error at a frame other than the entry frame
C2_Witness ==
    /\ pc = "raised"
    /\ exc = "KeyError"
    /\ keyframes[Head(work.names)][work.idx] # entry_frame

\* C3: when collect_animation_data_by_keyframes is left, by return or by an
\* exception, the current frame is the frame it was entered with.
C3_CollectRestoresOnExit ==
    pc = "finally_frame_set" => frame_current = work.current_frame

(***************************************************************************)
(* Properties of the image filter slots.                                   *)
(***************************************************************************)
HasEvent(events, kind) == \E i \in DOMAIN events : events[i][1] = kind

\* C4: an active denoise filter that is set up with enable = true and
\* different settings of the same resolution and the same filter type, the
\* type not being ML, is updated in place: the slot holds the same instance
\* after the call, its stored settings are the new settings, and no filter
\* was constructed or released.
C4_UpdateInPlace ==
    [][ (call'.op = "setup_image_filter" /\ Active(image_filter)) =>
          \A s \in ImageSettings(SupportedTypes) :
             ( /\ s.enable
               /\ s # image_filter.settings
               /\ s.resolution = image_filter.settings.resolution
               /\ s.filter_type = image_filter.settings.filter_type
               /\ s.filter_type # "ML"
               /\ CallSetupImageFilter(s) )
             => /\ image_filter'.id = image_filter.id
                /\ image_filter'.cls = image_filter.cls
                /\ image_filter'.settings = s
                /\ ~HasEvent(call'.events, "construct")
                /\ ~HasEvent(call'.events, "release") ]_vars

\* an in-place update happened: the last call updated the active filter
C4_Witness ==
    /\ call.op = "setup_image_filter"
    /\ Active(image_filter)
    /\ HasEvent(call.events, "update")
    /\ image_filter.settings.radius = MaxParam

\* C5: an active denoise filter that is set up with enable = true and
\* different settings whose resolution differs, or whose type differs, or
\* whose type is ML, is released first and a new instance is constructed
\* afterwards; the slot holds a different instance with the new settings and
\* nothing was updated in place.
C5_Recreate ==
    [][ (call'.op = "setup_image_filter" /\ Active(image_filter)) =>
          \A s \in ImageSettings(SupportedTypes) :
             ( /\ s.enable
               /\ s # image_filter.settings
               /\ \/ s.resolution # image_filter.settings.resolution
                  \/ s.filter_type # image_filter.settings.filter_type
                  \/ s.filter_type = "ML"
               /\ CallSetupImageFilter(s) )
             => /\ Active(image_filter')
                /\ image_filter'.id # image_filter.id
                /\ image_filter'.settings = s
                /\ ~HasEvent(call'.events, "update")
                /\ call'.events[1] = <<"release", image_filter.cls>>
                /\ call'.events[Len(call'.events)] = <<"construct", image_filter'.cls>>
                /\ Cardinality({i \in DOMAIN call'.events :
                       call'.events[i][1] \in {"release", "construct"}}) = 2 ]_vars

\* an ML filter was replaced by a new ML filter
C5_Witness ==
    /\ call.op = "setup_image_filter"
    /\ Active(image_filter)
    /\ image_filter.cls = "ImageFilterML"
    /\ HasEvent(call.events, "construct")
    /\ call.events[1] = <<"release", "ImageFilterML">>

\* C6: for each slot, a setup call with the settings of the active filter
\* changes nothing (same instance, same settings, no AOV enabled, nothing
\* constructed) and returns False; and calling setup twice with any settings
\* leaves the slot as calling it once.
C6_IdenticalSpecNoOp ==
    /\ [][ /\ (Active(image_filter)
                 /\ CallSetupImageFilter(image_filter.settings))
              => /\ image_filter' = image_filter
                 /\ enabled_aovs' = enabled_aovs
                 /\ call'.events = <<>>
                 /\ call'.ret = FALSE /\ ~call'.raised
           /\ (Active(background_filter)
                 /\ CallSetupBackgroundFilter(background_filter.settings))
              => /\ background_filter' = background_filter
                 /\ enabled_aovs' = enabled_aovs
                 /\ call'.events = <<>>
                 /\ call'.ret = FALSE /\ ~call'.raised
           /\ (Active(upscale_filter)
                 /\ CallSetupUpscaleFilter(upscale_filter.settings))
              => /\ upscale_filter' = upscale_filter
                 /\ enabled_aovs' = enabled_aovs
                 /\ call'.events = <<>>
                 /\ call'.ret = FALSE /\ ~call'.raised ]_vars
    /\ [](/\ \A s \in ImageSettings(SupportedTypes) :
                LET once == SetupImageFilter(image_filter, enabled_aovs, s)
                IN  SetupImageFilter(once.filter, once.aovs, s).filter = once.filter
          /\ \A s \in SlotSettings({1}) :
                LET once == SetupBackgroundFilter(background_filter, enabled_aovs, s)
                IN  SetupBackgroundFilter(once.filter, once.aovs, s).filter = once.filter
          /\ \A s \in SlotSettings({1}) :
                LET once == SetupUpscaleFilter(upscale_filter, enabled_aovs, s)
                IN  SetupUpscaleFilter(once.filter, once.aovs, s).filter = once.filter)

\* the last call was a setup of the active denoise filter that took the
\* early return
C6_Witness ==
    /\ call.op = "setup_image_filter"
    /\ Active(image_filter)
    /\ call.events = <<>>
    /\ call.ret = FALSE
    /\ requested.image

\* C7: with supported filter types, each slot holds a filter instance exactly
\* when the most recent setup call for the slot asked enable = true (so a
\* call with enable = false releases the instance), and the settings stored
\* on an active filter have enable = true.
C7_SlotLifecycle ==
    /\ Active(image_filter) <=> requested.image
    /\ Active(background_filter) <=> requested.background
    /\ Active(upscale_filter) <=> requested.upscale
    /\ \A f \in {image_filter, background_filter, upscale_filter} :
          Active(f) => f.settings.enable

\* the denoise filter was released by a call with enable = false while the
\* background filter stays active
C7_Witness ==
    /\ call.op = "setup_image_filter"
    /\ HasEvent(call.events, "release")
    /\ ~requested.image
    /\ ~Active(image_filter)
    /\ Active(background_filter)

\* the AOVs a filter needs, as the contract lists them
C8_Required(f) ==
    CASE f.cls = "ImageFilterBilateral" ->
            {"COLOR", "WORLD_COORDINATE", "OBJECT_ID", "SHADING_NORMAL"}
      [] f.cls \in {"ImageFilterEaw", "ImageFilterLwr"} ->
            {"COLOR", "WORLD_COORDINATE", "OBJECT_ID", "SHADING_NORMAL", "DEPTH"}
      [] f.cls = "ImageFilterML" ->
            IF f.settings.ml_color_only THEN {"COLOR"}
            ELSE {"COLOR", "DEPTH", "DIFFUSE_ALBEDO", "SHADING_NORMAL"}
      [] f.cls = "ImageFilterTransparentBackground" -> {"COLOR", "OPACITY"}
      [] f.cls = "ImageFilterUpscale" -> {"COLOR"}

\* the slot a setup operation works on
SlotOf(op) ==
    CASE op = "setup_image_filter" -> image_filter
      [] op = "setup_background_filter" -> background_filter
      [] op = "setup_upscale_filter" -> upscale_filter

\* C8: the AOVs an active filter needs are enabled in the renderer context,
\* and a call that constructed a filter enabled each of them before it
\* constructed the filter.
C8_AovsEnabledBeforeConstruct ==
    /\ \A f \in {image_filter, background_filter, upscale_filter} :
          Active(f) => C8_Required(f) \subseteq enabled_aovs
    /\ \A k \in DOMAIN call.events :
          call.events[k][1] = "construct" =>
             /\ call.events[k][2] = SlotOf(call.op).cls
             /\ \A a \in C8_Required(SlotOf(call.op)) :
                   \E i \in 1..(k - 1) : call.events[i] = <<"enable_aov", a>>

\* the last call constructed an ML filter that takes the auxiliary inputs
C8_Witness ==
    /\ call.op = "setup_image_filter"
    /\ HasEvent(call.events, "construct")
    /\ image_filter.cls = "ImageFilterML"
    /\ ~image_filter.settings.ml_color_only
    /\ Active(background_filter)

(***************************************************************************)
(* Properties of the group export.                                         *)
(***************************************************************************)
IsAssign(e) == e[1] \in {"assign_shape_to_group", "assign_light_to_group",
                         "assign_camera_to_group"}

\* C9: whenever a group is linked to a parent group, some object was
\* assigned to the parent group earlier in the pass.
C9_ParentAssignedBeforeLink ==
    \A i \in DOMAIN log :
        log[i][1] = "assign_parent_group_to_group" =>
            \E j \in 1..(i - 1) : IsAssign(log[j]) /\ log[j][3] = log[i][3]

\* C10: two exported objects with distinct names are assigned to groups with
\* distinct names.
C10_GroupNamesUnique ==
    \A i, j \in DOMAIN log :
        (IsAssign(log[i]) /\ IsAssign(log[j]) /\ log[i][2] # log[j][2])
            => log[i][3] # log[j][3]

\* the entries of the log that follow entry i up to the next object
\* (the next "sync", "sync_instance" or "create_camera" entry) or the end
\* of the log
C11_Block(i) ==
    LET Starts(j) == log[j][1] \in {"sync", "sync_instance", "create_camera"}
        stop == IF \E j \in (i + 1)..Len(log) : Starts(j)
                THEN CHOOSE j \in (i + 1)..Len(log) :
                        Starts(j) /\ \A k \in (i + 1)..(j - 1) : ~Starts(k)
                ELSE Len(log) + 1
    IN  SubSeq(log, i + 1, stop - 1)

\* C11: for every object sync_objects exported, the calls that follow the
\* creation of its renderer object are, in this order: the identity
\* transform, the assignment of the object to its group, the link of the
\* group to the parent group exactly when the object has a parent, the
\* group's static transform, then only animation tracks of that group, in
\* the order translation, rotation, scale.
C11_ExportOrder ==
    \A i \in DOMAIN log :
        log[i][1] = "sync" =>
            LET name  == log[i][2]
                b     == C11_Block(i)
                child == scene.objects[name].parent # NoParent
                t     == IF child THEN 4 ELSE 3
            IN  /\ Len(b) >= t
                /\ b[1] = <<"set_transform", name>>
                /\ IsAssign(b[2]) /\ b[2][2] = name
                /\ child => /\ b[3][1] = "assign_parent_group_to_group"
                            /\ b[3][2] = b[2][3]
                /\ b[t] = <<"set_transform_to_group", b[2][3]>>
                /\ \A k \in (t + 1)..Len(b) :
                      /\ b[k][1] = "add_animation"
                      /\ b[k][2] = b[2][3]
                      /\ b[k][3] = Categories[k - t]
                /\ Len(b) \in {t, t + 3}

\* the parented light was exported with its parent link and its three
\* animation tracks
C11_Witness ==
    /\ pc = "done"
    /\ \E i \in DOMAIN log :
          /\ log[i] = <<"sync", "Lamp">>
          /\ Len(C11_Block(i)) = 7
          /\ C11_Block(i)[3][1] = "assign_parent_group_to_group"

\* the group names the contract gives object n of the scene
C12_Expected(n) ==
    LET p == scene.objects[n].parent
    IN  CASE p = NoParent -> <<"Root." \o n, "Root">>
          [] p # NoParent /\ scene.objects[p].parent = NoParent ->
                <<p \o "." \o n, "Root." \o p>>
          [] OTHER -> <<p \o "." \o n, scene.objects[p].parent \o "." \o p>>

\* C12: get_group_names gives a root object n the names "Root.n" and "Root",
\* and an object n with parent p the name "p.n" with the parent group
\* "Root.p" when p is a root and "g.p" when p has the parent g; the groups
\* the export assigned and linked are these names.
C12_GroupNames ==
    /\ \A n \in DOMAIN scene.objects :
          GetGroupNames(scene.objects, n) = C12_Expected(n)
    /\ \A i \in DOMAIN log :
          (IsAssign(log[i]) /\ log[i][2] \in DOMAIN scene.objects) =>
             /\ log[i][3] = C12_Expected(log[i][2])[1]
             /\ (i < Len(log) /\ log[i + 1][1] = "assign_parent_group_to_group")
                  => log[i + 1] = <<"assign_parent_group_to_group",
                                    C12_Expected(log[i][2])[1],
                                    C12_Expected(log[i][2])[2]>>

\* an object whose parent has a parent was exported and linked to the group
\* named after its grandparent and parent
C12_Witness ==
    \E i \in DOMAIN log : \E n \in DOMAIN scene.objects :
        LET p == scene.objects[n].parent
        IN  /\ p # NoParent
            /\ scene.objects[p].parent # NoParent
            /\ log[i] = <<"assign_parent_group_to_group", p \o "." \o n,
                          scene.objects[p].parent \o "." \o p>>

(***************************************************************************)
(* Properties of keyframe collection and animation tracks.                 *)
(***************************************************************************)
\* C13: every key time collect_keyframes returned lies in
\* [frame_start, frame_end] and each object's times are strictly increasing.
C13_KeyframesInRangeIncreasing ==
    \A n \in DOMAIN keyframes :
        /\ \A i \in DOMAIN keyframes[n] :
              FrameStart <= keyframes[n][i] /\ keyframes[n][i] <= FrameEnd
        /\ \A i, j \in DOMAIN keyframes[n] :
              i < j => keyframes[n][i] < keyframes[n][j]

\* keyframes were collected for an object whose two curves share a key time
\* and hold two keys clamped to the start frame and a key clamped to the end
C13_Witness ==
    /\ pc = "collect_animation_data"
    /\ \E n \in DOMAIN keyframes :
          /\ Len(scene.anim[n].fcurves) = 2
          /\ scene.anim[n].fcurves[1] \cap scene.anim[n].fcurves[2] # {}
          /\ \E a \in scene.anim[n].fcurves[1], b \in scene.anim[n].fcurves[2] :
                a < b /\ b <= FrameStart
          /\ \E a \in scene.anim[n].fcurves[2] : a > FrameEnd
          /\ Len(keyframes[n]) = 2

\* C14: after collect_keyframes the keys of the result are exactly the
\* objects of the scene that have animation data with an action.
C14_OnlyAnimatedObjects ==
    pc # "collect_keyframes" =>
        DOMAIN keyframes = {n \in DOMAIN scene.objects : scene.anim[n].action}

\* keyframes were collected for a scene with an object without an action
\* and an object whose action has no curves: the first is absent, the
\* second present
C14_Witness ==
    /\ pc = "collect_animation_data"
    /\ ~scene.anim["Cube"].action
    /\ scene.anim["Camera"].action
    /\ scene.anim["Camera"].fcurves = <<>>
    /\ DOMAIN keyframes = {"Camera"}

\* C15: an Animation constructed from N keys and N values of the category's
\* size is packed with nbTimeKeys = nbTransformValues = N, movement type 1,
\* 2 or 3 for translation, rotation or scale, and interpolation type 0; a
\* construction with different numbers of keys and values raises
\* AssertionError with nothing allocated and nothing packed.
C15_AnimationPacking ==
    call.op = "Animation" =>
        LET n == Len(call.keys)
        IN  /\ (n = Len(call.data)
                  /\ \A i \in DOMAIN call.data :
                        call.data[i].size = (IF call.category = "rotation" THEN 4 ELSE 3))
               => /\ ~call.raised
                  /\ call.ret.nbTimeKeys = n
                  /\ call.ret.nbTransformValues = n
                  /\ call.ret.movementType =
                        (CASE call.category = "translation" -> 1
                           [] call.category = "rotation" -> 2
                           [] call.category = "scale" -> 3)
                  /\ call.ret.interpolationType = 0
            /\ n # Len(call.data)
               => /\ call.raised
                  /\ call.error = "AssertionError"
                  /\ call.events = <<>>
                  /\ call.ret = NoPacked

\* a construction with two keys and one value was refused
C15_Witness ==
    /\ call.op = "Animation"
    /\ Len(call.keys) = 2
    /\ Len(call.data) = 1
    /\ call.raised
    /\ call.ret = NoPacked

\* C16: every object with sampled animation data has, in each of the three
\* categories, as many values as it has keyframe times; no Animation was
\* refused; and every exported object that has keyframes got exactly three
\* tracks whose keys are its keyframe times with one value per key.
C16_TimesMatchValues ==
    /\ \A n \in DOMAIN animation_data :
          /\ n \in DOMAIN keyframes
          /\ \A c \in {"translation", "rotation", "scale"} :
                Len(animation_data[n][c]) = Len(keyframes[n])
    /\ exc # "AssertionError"
    /\ \A i \in DOMAIN log :
          (log[i][1] \in {"sync", "create_camera"} /\ log[i][2] \in DOMAIN keyframes) =>
             LET IsTrack(e) == e[1] = "add_animation"
                 tracks == SelectSeq(C11_Block(i), IsTrack)
             IN  /\ Len(tracks) = 3
                 /\ \A k \in 1..3 :
                       /\ tracks[k][4] = keyframes[log[i][2]]
                       /\ Len(tracks[k][5]) = Len(tracks[k][4])

\* the export finished for a mesh with exactly one keyframe, which got a
\* one-sample translation track
C16_Witness ==
    /\ pc = "done"
    /\ "Cube" \in DOMAIN keyframes
    /\ Len(keyframes["Cube"]) = 1
    /\ \E i \in DOMAIN log :
          /\ log[i][1] = "add_animation"
          /\ log[i][2] = "Root.Cube"
          /\ log[i][3] = "translation"
          /\ Len(log[i][4]) = 1
          /\ Len(log[i][5]) = 1

(***************************************************************************)
(* Properties of the motion blur pass.                                     *)
(***************************************************************************)
\* C17: when sync_motion_blur captured no entity it does nothing: the step
\* that runs it sets no frame and makes no call, it has returned, and
\* afterwards no frame set and no motion call of it is on record.
C17_NoEntityNoOp ==
    /\ [][ (pc = "motion_blur" /\ mb'.state # "none" /\ mb'.captured = 0)
            => /\ frame_current' = frame_current
               /\ log' = log
               /\ mb'.sets = <<>>
               /\ mb'.state = "returned"
               /\ pc' = "finish" ]_vars
    /\ []( (mb.state # "none" /\ mb.captured = 0)
            => /\ mb.sets = <<>>
               /\ mb.state = "returned"
               /\ frame_current = mb.entry
               /\ \A i \in DOMAIN log : log[i][1] # "set_motion_blur" )

\* sync_motion_blur returned at once although the light was exported: its
\* renderer object is a point light, a kind no motion is computed for
C17_Witness ==
    /\ mb.state = "returned"
    /\ mb.captured = 0
    /\ pc = "done"
    /\ "Lamp" \in DOMAIN rpr_objects
    /\ rpr_objects["Lamp"] = "PointLight"
    /\ "Cube" \notin DOMAIN rpr_objects

(***************************************************************************)
(* Properties of the render result.                                        *)
(***************************************************************************)
\* the last call was update_render_result with a pass named "Combined"
CombinedWasSet ==
    /\ call.op = "update_render_result"
    /\ \E i \in DOMAIN call.passes : call.passes[i].name = "Combined"

\* the image the last call set to the pass named "Combined"
CombinedResult ==
    call.ret[CHOOSE i \in DOMAIN call.passes : call.passes[i].name = "Combined"]

\* C18: with the image filter applied, a denoise filter active and no
\* background filter, the alpha channel of the combined output is the alpha
\* channel of the raw render and the other channels are the channels of the
\* denoise filter's output.
C18_AlphaFromRaw ==
    (/\ CombinedWasSet
     /\ call.apply_image_filter
     /\ Active(image_filter)
     /\ ~Active(background_filter))
    => /\ Len(CombinedResult) = 4
       /\ CombinedResult[4] = <<"raw", "DEFAULT", 4>>
       /\ \A c \in 1..3 : CombinedResult[c] = <<"filtered", image_filter.cls, c>>

\* the combined pass was set from an ML denoise filter with no background
\* filter
C18_Witness ==
    /\ CombinedWasSet
    /\ call.apply_image_filter
    /\ Active(image_filter)
    /\ image_filter.cls = "ImageFilterML"
    /\ ~Active(background_filter)
    /\ Len(call.passes) = 1

\* the combined output is taken from the denoise filter: its color channels
\* directly, or the background composite of its output
C19_FromFilter ==
    IF Active(background_filter)
    THEN \A c \in 1..4 :
            /\ CombinedResult[c][1] = "composite"
            /\ CombinedResult[c][2] = FilterData(image_filter)
    ELSE \A c \in 1..3 : CombinedResult[c] = <<"filtered", image_filter.cls, c>>

\* C19 as stated: whenever a denoise filter is active the combined output is
\* taken from it, whatever apply_image_filter is.
C19_FilterAlwaysTaken ==
    (CombinedWasSet /\ Active(image_filter)) => C19_FromFilter

\* C19 as amended: whenever a denoise filter is active and
\* apply_image_filter is true the combined output is taken from it (fed
\* through the background composite when a background filter is active).
C19_FilterTakenWhenApplied ==
    (CombinedWasSet /\ Active(image_filter) /\ call.apply_image_filter)
        => C19_FromFilter

\* the combined pass was set with the filter applied while both the denoise
\* and the background filter were active
C19_Witness ==
    /\ CombinedWasSet
    /\ call.apply_image_filter
    /\ Active(image_filter)
    /\ Active(background_filter)
    /\ CombinedResult[1][1] = "composite"

\* C20: with denoise applied and a background filter active the composite is
\* run on the denoise output and the raw opacity and its result is the
\* output; with no denoise filter and a background filter it is run on the
\* raw color and opacity; with neither filter the output is the raw combined
\* buffer and no filter input is set and no filter is run.
C20_DecisionTable ==
    CombinedWasSet =>
        LET filtered == [c \in 1..4 |-> <<"filtered", image_filter.cls, c>>]
            color    == [c \in 1..4 |-> <<"raw", "COLOR", c>>]
            opacity  == [c \in 1..4 |-> <<"raw", "OPACITY", c>>]
            RanOn(input) ==
                /\ CombinedResult = [c \in 1..4 |-> <<"composite", input, opacity, c>>]
                /\ \E i \in DOMAIN call.events :
                      /\ i + 2 <= Len(call.events)
                      /\ call.events[i] = <<"update_input", "color", input>>
                      /\ call.events[i + 1] = <<"update_input", "opacity", opacity>>
                      /\ call.events[i + 2] = <<"run", background_filter.cls>>
        IN  /\ (call.apply_image_filter /\ Active(image_filter)
                   /\ Active(background_filter)) => RanOn(filtered)
            /\ (~Active(image_filter) /\ Active(background_filter)) => RanOn(color)
            /\ (~Active(image_filter) /\ ~Active(background_filter)) =>
                  /\ CombinedResult = [c \in 1..4 |-> <<"raw", "DEFAULT", c>>]
                  /\ \A i \in DOMAIN call.events :
                        call.events[i][1] \notin {"run", "update_input"}

\* the combined pass was set from the background composite of the raw
\* buffers, with no denoise filter
C20_Witness ==
    /\ CombinedWasSet
    /\ ~Active(image_filter)
    /\ Active(background_filter)
    /\ HasEvent(call.events, "run")
    /\ CombinedResult[1][2] = RawImage("COLOR")

\* C21: update_render_result sets one image per requested pass; a pass other
\* than Combined and Color gets the leading channels of its AOV buffer when
\* the pass names a known AOV that is enabled, with no warning, and otherwise
\* a buffer of zeros with a warning, and the call does not fail.
C21_OtherPasses ==
    call.op = "update_render_result" =>
        /\ ~call.raised
        /\ Len(call.ret) = Len(call.passes)
        /\ \A i \in DOMAIN call.passes :
              LET p == call.passes[i]
                  Warned == \E k \in DOMAIN call.events : call.events[k] = <<"warn", p.name>>
              IN  p.name \notin {"Combined", "Color"} =>
                     IF p.name = "Depth" /\ "DEPTH" \in enabled_aovs
                     THEN /\ call.ret[i] = [c \in 1..p.channels |-> <<"raw", "DEPTH", c>>]
                          /\ ~Warned
                     ELSE /\ call.ret[i] = [c \in 1..p.channels |-> <<"zero">>]
                          /\ Warned

\* a call whose first pass names a known AOV that is not enabled and whose
\* second pass is the combined pass: zeros, a warning, and both images set
C21_Witness ==
    /\ call.op = "update_render_result"
    /\ Len(call.passes) = 2
    /\ call.passes[1].name = "Depth"
    /\ call.passes[2].name = "Combined"
    /\ "DEPTH" \notin enabled_aovs
    /\ "COLOR" \in enabled_aovs
    /\ call.ret[1] = <<(<<"zero">>)>>
    /\ Len(call.ret[2]) = 4

\* the entries of the log that follow the set_motion_blur entry i up to the
\* next entity or the end of the log
MotionCalls(i) ==
    LET Starts(j) == log[j][1] \in {"set_motion_blur", "set_motion_blur_raised"}
        stop == IF \E j \in (i + 1)..Len(log) : Starts(j)
                THEN CHOOSE j \in (i + 1)..Len(log) :
                        Starts(j) /\ \A k \in (i + 1)..(j - 1) : ~Starts(k)
                ELSE Len(log) + 1
    IN  SubSeq(log, i + 1, stop - 1)

\* C22: for every entity set_motion_blur returned for: an entity whose
\* renderer object has set_motion_transform receives
\* the previous-frame matrix and nothing else; any other entity receives
\* the linear motion, then the angular motion, then the scale motion exactly
\* when its renderer object is not a camera.
C22_MotionDispatch ==
    \A i \in DOMAIN log :
        log[i][1] = "set_motion_blur" =>
            LET key   == log[i][2]
                calls == MotionCalls(i)
                kinds == [k \in DOMAIN calls |-> calls[k][1]]
            IN  /\ \A k \in DOMAIN calls : calls[k][2] = key
                /\ IF log[i][3]
                   THEN calls = <<(<<"set_motion_transform", key, "prev_matrix">>)>>
                   ELSE IF rpr_objects[key] = "Camera"
                   THEN kinds = <<"set_linear_motion", "set_angular_motion">>
                   ELSE kinds = <<"set_linear_motion", "set_angular_motion",
                                  "set_scale_motion">>

\* motion was computed for the camera without the motion-transform
\* capability and for the mesh with it
C22_Witness ==
    /\ pc = "done"
    /\ \E i, j \in DOMAIN log :
          /\ log[i][1] = "set_motion_blur" /\ log[i][2] = "Camera" /\ ~log[i][3]
          /\ log[j][1] = "set_motion_blur" /\ log[j][2] = "Cube" /\ log[j][3]

\* C23: the angular motion of an entity is the fixed value (1, 0, 0, 0) when
\* the axis of the rotation between the frames has a length of at most 0.5,
\* and (axis, angle) only when the length is above 0.5.
C23_DegenerateRotation ==
    \A i \in DOMAIN log :
        (log[i][1] = "set_motion_blur" /\ ~log[i][3]) =>
            \E k \in DOMAIN MotionCalls(i) :
                /\ MotionCalls(i)[k][1] = "set_angular_motion"
                /\ MotionCalls(i)[k][3] = (IF log[i][4] * 2 <= 10 THEN "fixed"
                                           ELSE "axis_angle")
                /\ \A m \in DOMAIN MotionCalls(i) :
                      MotionCalls(i)[m][1] = "set_angular_motion" => m = k

\* an entity whose rotation axis has length exactly 0.5 got the fixed value
C23_Witness ==
    \E i \in DOMAIN log :
        /\ log[i][1] = "set_motion_blur"
        /\ ~log[i][3]
        /\ log[i][4] = 5
        /\ log[i + 1][1] = "set_linear_motion"
        /\ log[i + 2] = <<"set_angular_motion", log[i][2], "fixed">>

(***************************************************************************)
(* Properties of the group assignment and the animation tracks.            *)
(***************************************************************************)
\* C24: assing_group_to_object makes exactly one call for a shape, a light or
\* a camera, the assign call of that variant with the object and the given
\* group name, and for any other renderer object no call and no error.
C24_AssignDispatch ==
    call.op = "assing_group_to_object" =>
        LET Only(fn) == call.events = <<(<<fn, call.name, call.group_name>>)>>
        IN  /\ ~call.raised
            /\ call.kind = "Shape" => Only("assign_shape_to_group")
            /\ call.kind \in {"AreaLight", "PointLight"} => Only("assign_light_to_group")
            /\ call.kind = "Camera" => Only("assign_camera_to_group")
            /\ call.kind \notin {"Shape", "AreaLight", "PointLight", "Camera"}
                  => call.events = <<>>

\* a camera was assigned to a group
C24_Witness ==
    /\ call.op = "assing_group_to_object"
    /\ call.kind = "Camera"
    /\ call.group_name = "Root.a"
    /\ Len(call.events) = 1

\* C25: for every exported object, apply_object_animation attached no track
\* and raised nothing when no animation data was collected for the object,
\* and otherwise attached exactly three tracks to the object's group, for
\* translation, rotation and scale in this order, each with the keyframe
\* times collected for the object.
C25_ApplyObjectAnimation ==
    /\ exc # "AssertionError"
    /\ \A i \in DOMAIN log :
          log[i][1] \in {"sync", "create_camera"} =>
             LET name   == log[i][2]
                 b      == C11_Block(i)
                 IsTrack(e) == e[1] = "add_animation"
                 IsGroup(e) == IsAssign(e)
                 tracks == SelectSeq(b, IsTrack)
                 group  == SelectSeq(b, IsGroup)[1][3]
             IN  IF name \in DOMAIN animation_data
                 THEN /\ Len(tracks) = 3
                      /\ <<tracks[1][3], tracks[2][3], tracks[3][3]>>
                            = <<"translation", "rotation", "scale">>
                      /\ \A k \in 1..3 : /\ tracks[k][2] = group
                                          /\ tracks[k][4] = keyframes[name]
                 ELSE tracks = <<>>

\* the export finished with the mesh exported without animation data and the
\* light with three tracks
C25_Witness ==
    /\ pc = "done"
    /\ "Cube" \in DOMAIN rpr_objects
    /\ "Cube" \notin DOMAIN animation_data
    /\ "Lamp" \in DOMAIN animation_data
    /\ Cardinality({i \in DOMAIN log :
                      log[i][1] = "add_animation" /\ log[i][2] = "Cube.Lamp"}) = 3

\* C26: for every object with a parent, the parent group name of the object
\* is the group name of its parent object; and so a group was linked to the
\* very group its parent object was assigned to, when both were exported.
C26_ParentGroupConsistent ==
    /\ \A n \in DOMAIN scene.objects :
          scene.objects[n].parent # NoParent =>
             GetGroupNames(scene.objects, n)[2]
                = GetGroupNames(scene.objects, scene.objects[n].parent)[1]
    /\ \A i, j \in DOMAIN log :
          (/\ IsAssign(log[i]) /\ log[i][2] \in DOMAIN scene.objects
           /\ i < Len(log) /\ log[i + 1][1] = "assign_parent_group_to_group"
           /\ IsAssign(log[j]) /\ log[j][2] = scene.objects[log[i][2]].parent)
          => log[i + 1][3] = log[j][3]

\* an object and its parent, which has a parent itself, were both exported,
\* and the object's group was linked
C26_Witness ==
    \E i, j \in DOMAIN log :
        /\ IsAssign(log[i]) /\ log[i][2] \in DOMAIN scene.objects
        /\ i < Len(log) /\ log[i + 1][1] = "assign_parent_group_to_group"
        /\ IsAssign(log[j]) /\ log[j][2] = scene.objects[log[i][2]].parent
        /\ scene.objects[log[j][2]].parent # NoParent
        /\ j < i

(***************************************************************************)
(* Properties of the filter setup calls.                                   *)
(***************************************************************************)
\* C27: after a setup call with enable = true that returned, the slot holds
\* an active filter whose stored settings are the settings of the call.
C27_StoredSettingsCurrent ==
    [][ /\ \A s \in ImageSettings(SupportedTypes) :
              (s.enable /\ CallSetupImageFilter(s) /\ ~call'.raised)
                 => (Active(image_filter') /\ image_filter'.settings = s)
        /\ \A s \in SlotSettings({1, 2}) :
              (s.enable /\ CallSetupBackgroundFilter(s) /\ ~call'.raised)
                 => (Active(background_filter') /\ background_filter'.settings = s)
        /\ \A s \in SlotSettings({1, 2}) :
              (s.enable /\ CallSetupUpscaleFilter(s) /\ ~call'.raised)
                 => (Active(upscale_filter') /\ upscale_filter'.settings = s) ]_vars

\* C28: a setup call that left the filter instance and the stored settings
\* of its slot as they were returned False.
C28_TrueOnlyWhenChanged ==
    [][ /\ (call'.op = "setup_image_filter" /\ image_filter' = image_filter)
              => ~call'.ret
        /\ (call'.op = "setup_background_filter" /\ background_filter' = background_filter)
              => ~call'.ret
        /\ (call'.op = "setup_upscale_filter" /\ upscale_filter' = upscale_filter)
              => ~call'.ret ]_vars

\* the input ids the last update_image_filter_inputs call bound
C29_Bound == {call.events[i][2] : i \in DOMAIN call.events}

\* the input set of a denoise filter by type
C29_Table(settings) ==
    CASE settings.filter_type = "BILATERAL" ->
            {"color", "normal", "world_coordinate", "object_id"}
      [] settings.filter_type \in {"EAW", "LWR"} ->
            {"color", "normal", "depth", "trans", "world_coordinate", "object_id"}
      [] settings.filter_type = "ML" /\ settings.ml_color_only -> {"color"}
      [] settings.filter_type = "ML" /\ ~settings.ml_color_only ->
            {"color", "normal", "depth", "albedo"}

\* C29: the inputs update_image_filter_inputs binds on the active denoise
\* filter are the inputs the filter was constructed with, and both are the
\* input set of the filter's type.
C29_InputsMatchConstruction ==
    (call.op = "update_image_filter_inputs" /\ ~call.raised) =>
        /\ C29_Bound = image_filter.inputs
        /\ C29_Bound = C29_Table(image_filter.settings)

\* inputs were bound on a color-only ML filter that replaced another filter
C29_Witness ==
    /\ call.op = "update_image_filter_inputs"
    /\ ~call.raised
    /\ image_filter.cls = "ImageFilterML"
    /\ image_filter.settings.ml_color_only
    /\ image_filter.id = 2
    /\ C29_Bound = {"color"}

\* C30: a setup call for one slot leaves the two other slots as they were,
\* keeps every AOV enabled, and the AOVs the active filters need stay enabled.
C30_SlotsIndependent ==
    [][ /\ call'.op = "setup_image_filter" =>
              (background_filter' = background_filter /\ upscale_filter' = upscale_filter)
        /\ call'.op = "setup_background_filter" =>
              (image_filter' = image_filter /\ upscale_filter' = upscale_filter)
        /\ call'.op = "setup_upscale_filter" =>
              (image_filter' = image_filter /\ background_filter' = background_filter)
        /\ enabled_aovs \subseteq enabled_aovs'
        /\ \A f \in {image_filter', background_filter', upscale_filter'} :
              Active(f) => C8_Required(f) \subseteq enabled_aovs' ]_vars

\* the denoise filter was recreated as a color-only ML filter while the
\* background and upscale filters stayed active
C30_Witness ==
    /\ call.op = "setup_image_filter"
    /\ HasEvent(call.events, "release")
    /\ HasEvent(call.events, "construct")
    /\ image_filter.cls = "ImageFilterML"
    /\ image_filter.settings.ml_color_only
    /\ Active(background_filter)
    /\ Active(upscale_filter)

\* C31: after stop_render none of the three filter slots holds a filter.
C31_AllSlotsDisabledAfterStop ==
    call.op = "stop_render" =>
        /\ ~Active(image_filter)
        /\ ~Active(background_filter)
        /\ ~Active(upscale_filter)

(***************************************************************************)
(* Empty keyframe sequences.                                               *)
(***************************************************************************)
\* C32: collect_keyframes maps no object to an empty keyframe sequence, and
\* the export adds no animation track with zero keys.
C32_NoEmptyKeyframes ==
    /\ \A n \in DOMAIN keyframes : Len(keyframes[n]) > 0
    /\ \A i \in DOMAIN log :
          log[i][1] = "add_animation" => Len(log[i][4]) > 0

\* C33: a setup_image_filter call that asks to enable a filter type without
\* a branch raises and leaves the denoise slot as it was.
C33_FailedSetupKeepsSlot ==
    [][ \A s \in AnyTypeSettings :
           (s.enable /\ s.filter_type \notin SupportedTypes /\ CallSetupImageFilter(s))
              => (call'.raised /\ image_filter' = image_filter) ]_vars

====
